---- MODULE Spec2Model ----
(***************************************************************************)
(* A model of thirdparty/calib.py: the calibration-file loader             *)
(* (read_calib_file), the homogeneous transform primitive, the disparity   *)
(* filter and the Calib accessors.                                         *)
(*                                                                         *)
(* Text is a sequence of one-character strings.  A parsed float is the     *)
(* exact decimal [s, m, e] (sign, mantissa, power of ten) in normal form;  *)
(* within the line lengths explored no exponent overflows a double and no  *)
(* mantissa exceeds its precision, so equal doubles are equal decimals.    *)
(***************************************************************************)
EXTENDS Integers, Sequences, FiniteSets, TLC

VARIABLES
  file,      \* loader: the text read from calib_path, while read_calib_file runs
  idx,       \* loader: index of the next line of f.readlines()
  data,      \* loader: the local dict `data`, while read_calib_file runs
  pc,        \* loader: "loop" | "done" | "error" ; "idle" in the other specs
  exc,       \* loader: the exception that left read_calib_file, or "none"
  built,     \* whether Calib.__init__ returned an instance
  cdata,     \* Calib: self.data
  points,    \* homogeneous_transform: the (n, D) argument
  transform, \* homogeneous_transform: the (M, N) argument
  keep_last, \* homogeneous_transform: the keep_last argument
  htRet,     \* homogeneous_transform: what the call returned or raised
  xyd,       \* filter_disps: the rows (x, y, d)
  shape,     \* filter_disps: (height, width)
  max_disp,  \* filter_disps: the max_disp argument
  return_mask, \* filter_disps: the return_mask argument
  fRet,      \* filter_disps: what the call returned
  colorArg,  \* Calib: the color argument given to __init__
  attrs,     \* Calib: the instance attributes that are set (self.data's value is cdata)
  lastCall,  \* Calib: the accessor called last with its argument, <<>> before the first
  ret,       \* Calib: what that call returned or raised
  nwrites    \* Calib: element writes the caller made to returned arrays

loadVars == <<file, idx, data, pc, exc, built, cdata>>

htVars == <<points, transform, keep_last, htRet>>

fVars == <<xyd, shape, max_disp, return_mask, fRet>>

calibVars == <<colorArg, attrs, lastCall, ret, nwrites>>

vars == <<loadVars, htVars, fVars, calibVars>>

(***************************************************************************)
(* Bounds                                                                  *)
(***************************************************************************)
MaxLineLen == 4
MaxLines == 2
MaxM == 3
MaxPts == 1
MaxRows == 2
MaxMissing == 1
MaxWrites == 1

(***************************************************************************)
(* Text helpers                                                            *)
(***************************************************************************)
NL == "\n"

Alphabet == {"0", "1", ".", "e", "E", "-", " ", ":", "a"}

Texts(alphabet, n) == UNION {[1..k -> alphabet] : k \in 0..n}

Digit == {"0", "1", "2", "3", "4", "5", "6", "7", "8", "9"}

\* set("0123456789.e+- ")
float_chars == Digit \cup {".", "e", "+", "-", " "}

\* the characters str.strip() removes when called without argument
Whitespace == {" ", "\t", NL, "\r"}

RECURSIVE LStrip(_, _)
LStrip(s, cs) ==
  IF s # <<>> /\ Head(s) \in cs THEN LStrip(Tail(s), cs) ELSE s

RECURSIVE RStrip(_, _)
RStrip(s, cs) ==
  IF s # <<>> /\ s[Len(s)] \in cs THEN RStrip(SubSeq(s, 1, Len(s) - 1), cs) ELSE s

\* str.strip(chars): leading and trailing characters of cs removed
Strip(s, cs) == RStrip(LStrip(s, cs), cs)

\* index of the first occurrence of c in s, 0 when there is none
FirstIndex(s, c) ==
  IF \E i \in 1..Len(s) : s[i] = c
  THEN CHOOSE i \in 1..Len(s) : s[i] = c /\ \A j \in 1..(i - 1) : s[j] # c
  ELSE 0

\* str.split(c): every piece between occurrences of c, empty pieces kept
RECURSIVE SplitAll(_, _)
SplitAll(s, c) ==
  LET i == FirstIndex(s, c) IN
  IF i = 0 THEN <<s>>
  ELSE <<SubSeq(s, 1, i - 1)>> \o SplitAll(SubSeq(s, i + 1, Len(s)), c)

\* str.split(c, 1): at most one split, at the first occurrence of c
SplitOnce(s, c) ==
  LET i == FirstIndex(s, c) IN
  IF i = 0 THEN <<s>>
  ELSE <<SubSeq(s, 1, i - 1), SubSeq(s, i + 1, Len(s))>>

\* f.readlines(): the lines of the text, each keeping its terminator
RECURSIVE ReadLines(_)
ReadLines(text) ==
  LET i == FirstIndex(text, NL) IN
  IF text = <<>> THEN <<>>
  ELSE IF i = 0 THEN <<text>>
  ELSE <<SubSeq(text, 1, i)>> \o ReadLines(SubSeq(text, i + 1, Len(text)))

(***************************************************************************)
(* float(piece) for pieces over float_chars without spaces                 *)
(***************************************************************************)
AllDigits(s) == \A i \in 1..Len(s) : s[i] \in Digit

Unsigned(s) == IF s # <<>> /\ s[1] \in {"+", "-"} THEN Tail(s) ELSE s

IsNeg(s) == s # <<>> /\ s[1] = "-"

\* mantissa: [sign] digits [. digits] with at least one digit
MantOK(s) ==
  LET parts == SplitOnce(Unsigned(s), ".")
      ip == parts[1]
      fp == IF Len(parts) = 2 THEN parts[2] ELSE <<>>
  IN AllDigits(ip) /\ AllDigits(fp) /\ Len(ip) + Len(fp) >= 1

\* exponent: [sign] digits with at least one digit
ExpOK(s) == Unsigned(s) # <<>> /\ AllDigits(Unsigned(s))

\* float() reads the exponent marker in either case
LowerE(s) == [i \in 1..Len(s) |-> IF s[i] = "E" THEN "e" ELSE s[i]]

\* whether float(s) returns (TRUE) or raises ValueError (FALSE)
ParsesAsFloat(s) ==
  LET parts == SplitOnce(LowerE(s), "e") IN
  MantOK(parts[1]) /\ (Len(parts) = 2 => ExpOK(parts[2]))

DigitVal(c) ==
  CASE c = "0" -> 0 [] c = "1" -> 1 [] c = "2" -> 2 [] c = "3" -> 3
    [] c = "4" -> 4 [] c = "5" -> 5 [] c = "6" -> 6 [] c = "7" -> 7
    [] c = "8" -> 8 [] c = "9" -> 9

RECURSIVE NatVal(_)
NatVal(s) ==
  IF s = <<>> THEN 0
  ELSE 10 * NatVal(SubSeq(s, 1, Len(s) - 1)) + DigitVal(s[Len(s)])

RECURSIVE Normal(_, _, _)
Normal(sg, m, e) ==
  IF m = 0 THEN [s |-> sg, m |-> 0, e |-> 0]
  ELSE IF m % 10 = 0 THEN Normal(sg, m \div 10, e + 1)
  ELSE [s |-> sg, m |-> m, e |-> e]

\* the value float(s) returns where ParsesAsFloat(s)
FloatVal(s) ==
  LET parts == SplitOnce(LowerE(s), "e")
      mant == SplitOnce(Unsigned(parts[1]), ".")
      ip == mant[1]
      fp == IF Len(mant) = 2 THEN mant[2] ELSE <<>>
      ex == IF Len(parts) = 2
            THEN (IF IsNeg(parts[2]) THEN -1 ELSE 1) * NatVal(Unsigned(parts[2]))
            ELSE 0
  IN Normal(IF IsNeg(parts[1]) THEN -1 ELSE 1, NatVal(ip \o fp), ex - Len(fp))

(***************************************************************************)
(* read_calib_file                                                         *)
(***************************************************************************)
TextValue(t) == [tag |-> "str", str |-> t, vec |-> <<>>]

NumValue(v) == [tag |-> "num", str |-> <<>>, vec |-> v]

\* list(map(float, value.split(' '))) : the floats, or ValueError
FloatList(value) ==
  LET pieces == SplitAll(value, " ") IN
  IF \A i \in 1..Len(pieces) : ParsesAsFloat(pieces[i])
  THEN [ok |-> TRUE, vec |-> [i \in 1..Len(pieces) |-> FloatVal(pieces[i])]]
  ELSE [ok |-> FALSE, vec |-> <<>>]

\* the cast attempted on every value, without the float_chars test
StoredValue_NoCharCheck(rawValue) ==
  LET value == Strip(rawValue, Whitespace) IN
  IF FloatList(value).ok THEN NumValue(FloatList(value).vec) ELSE TextValue(value)

\* lines 38-45: what data[key] holds after the line's value was handled
StoredValue(rawValue) ==
  LET value == Strip(rawValue, Whitespace) IN
  IF (\A i \in 1..Len(value) : value[i] \in float_chars) /\ FloatList(value).ok
  THEN NumValue(FloatList(value).vec)
  ELSE TextValue(value)

Lines == ReadLines(file)

\* line 33: line.strip('\n')
CurLine == Strip(Lines[idx], {NL})

\* an assignment that keeps the value a key already has
Put_KeepFirst(d, k, v) ==
  [x \in (DOMAIN d) \cup {k} |-> IF x \in DOMAIN d THEN d[x] ELSE v]

\* dict assignment data[key] = v
Put(d, k, v) == [x \in (DOMAIN d) \cup {k} |-> IF x = k THEN v ELSE d[x]]

EmptyDict == [x \in {} |-> TextValue(<<>>)]

\* lines 34-35: an empty line is skipped
SkipLine ==
  /\ pc = "loop" /\ idx <= Len(Lines)
  /\ Len(CurLine) = 0
  /\ idx' = idx + 1
  /\ UNCHANGED <<file, data, pc, exc, built, cdata>>
  /\ UNCHANGED <<htVars, fVars, calibVars>>

\* a loader that passes over a line without ':'
BadLine_Skip ==
  /\ pc = "loop" /\ idx <= Len(Lines)
  /\ Len(CurLine) # 0
  /\ Len(SplitOnce(CurLine, ":")) # 2
  /\ idx' = idx + 1
  /\ UNCHANGED <<file, data, pc, exc, built, cdata>>
  /\ UNCHANGED <<htVars, fVars, calibVars>>

\* line 37: key, value = line.split(':', 1) with no ':' cannot unpack
BadLine ==
  /\ pc = "loop" /\ idx <= Len(Lines)
  /\ Len(CurLine) # 0
  /\ Len(SplitOnce(CurLine, ":")) # 2
  /\ pc' = "error" /\ exc' = "ValueError"
  /\ UNCHANGED <<file, idx, data, built, cdata>>
  /\ UNCHANGED <<htVars, fVars, calibVars>>

\* lines 37-45
StoreLine ==
  /\ pc = "loop" /\ idx <= Len(Lines)
  /\ Len(CurLine) # 0
  /\ Len(SplitOnce(CurLine, ":")) = 2
  /\ LET kv == SplitOnce(CurLine, ":") IN
       data' = Put(data, kv[1], StoredValue(kv[2]))
  /\ idx' = idx + 1
  /\ UNCHANGED <<file, pc, exc, built, cdata>>
  /\ UNCHANGED <<htVars, fVars, calibVars>>

\* line 49 and lines 113-115: read_calib_file returns its dict (its locals
\* end with the call) and __init__ stores calib_path and the dict; the
\* color argument is not stored
CalibInit ==
  /\ pc = "loop" /\ idx > Len(Lines)
  /\ pc' = "done"
  /\ attrs' = ("calib_path" :> "calib_path") @@ ("data" :> "cdata")
  /\ cdata' = data
  /\ built' = TRUE
  /\ file' = <<>> /\ idx' = 1 /\ data' = EmptyDict
  /\ UNCHANGED <<exc, colorArg, lastCall, ret, nwrites>>
  /\ UNCHANGED <<htVars, fVars>>

\* the files explored: every one-line text, with and without its
\* terminator, and every file of several sample lines
SampleLines ==
  { <<>>,
    <<"a">>,
    <<"a", ":", "1">>,
    <<"a", ":", "e">>,
    <<"a", ":", " ", "1", " ", "0", " ">>,
    <<" ", "a", ":", "1", ".", "0">>,
    <<"b", ":", "a", ":", "1">>,
    <<"b", ":">>,
    <<"b", ":", "1", " ", " ", "1">> }

RECURSIVE Join(_)
Join(ls) == IF ls = <<>> THEN <<>> ELSE Head(ls) \o <<NL>> \o Join(Tail(ls))

OneLineFiles ==
  LET ts == Texts(Alphabet, MaxLineLen) IN ts \cup {t \o <<NL>> : t \in ts}

ManyLineFiles ==
  {Join(ls) : ls \in UNION {[1..k -> SampleLines] : k \in 2..MaxLines}}

Files == OneLineFiles \cup ManyLineFiles

NoCall == [ok |-> FALSE, err |-> "not called", val |-> <<>>]

HTIdle ==
  /\ points = <<>> /\ transform = <<>> /\ keep_last = FALSE /\ htRet = NoCall

NoFilterCall == [called |-> FALSE, rows |-> <<>>, hasMask |-> FALSE, mask |-> <<>>]

FilterIdle ==
  /\ xyd = <<>> /\ shape = <<1, 1>> /\ max_disp = 0 /\ return_mask = FALSE
  /\ fRet = NoFilterCall

NoAttrs == [n \in {} |-> ""]

NoRet == [ok |-> FALSE, err |-> "not called", val |-> <<>>, alias |-> <<>>, transposed |-> FALSE]

CalibIdle ==
  /\ colorArg = FALSE /\ attrs = NoAttrs /\ lastCall = <<>> /\ ret = NoRet /\ nwrites = 0

LoadIdle ==
  /\ file = <<>> /\ idx = 1 /\ data = EmptyDict /\ pc = "idle" /\ exc = "none"
  /\ built = FALSE /\ cdata = EmptyDict

InitLoad ==
  /\ file \in Files
  /\ idx = 1
  /\ data = EmptyDict
  /\ pc = "loop"
  /\ exc = "none"
  /\ built = FALSE
  /\ cdata = EmptyDict
  /\ HTIdle /\ FilterIdle /\ CalibIdle

NextLoad == SkipLine \/ BadLine \/ StoreLine \/ CalibInit

SpecLoad == InitLoad /\ [][NextLoad]_vars

(***************************************************************************)
(* homogeneous_transform                                                   *)
(*                                                                         *)
(* A matrix is a sequence of rows.  Array entries are integers; a quotient *)
(* is the fraction [n, d] in lowest terms with d > 0, and a division by    *)
(* zero gives what numpy gives: [1, 0] or [-1, 0] (inf, -inf), [0, 0]      *)
(* (nan).                                                                  *)
(***************************************************************************)
Entries == {0, 1}

OutDims == {1, 2}

Matrices(r, c) == [1..r -> [1..c -> Entries]]

Abs(x) == IF x < 0 THEN -x ELSE x

RECURSIVE Gcd(_, _)
Gcd(a, b) == IF b = 0 THEN a ELSE Gcd(b, a % b)

Sign(x) == IF x > 0 THEN 1 ELSE IF x < 0 THEN -1 ELSE 0

\* a / b of numpy's true division on integers
Div(a, b) ==
  IF b = 0 THEN [n |-> Sign(a), d |-> 0]
  ELSE LET g == Gcd(Abs(a), Abs(b)) IN
       [n |-> Sign(b) * (a \div g), d |-> Abs(b) \div g]

\* an integer as a float
AsFloat(a) == [n |-> a, d |-> 1]

RECURSIVE DotTo(_, _, _)
DotTo(u, v, k) == IF k = 0 THEN 0 ELSE DotTo(u, v, k - 1) + u[k] * v[k]

Column(m, j) == [i \in 1..Len(m) |-> m[i][j]]

\* np.dot(a, b) of an (n, K) and a (K, N) matrix
MatMul(a, b) ==
  [i \in 1..Len(a) |->
     [j \in 1..Len(b[1]) |-> DotTo(a[i], Column(b, j), Len(b))]]

\* np.hstack([points, np.ones((n_points, 1))])
AppendOnes(pts) == [i \in 1..Len(pts) |-> Append(pts[i], 1)]

\* the normalization that keeps the divided last coordinate
Normalize_DividedLast(np, keep) ==
  LET N == Len(np[1]) IN
  [i \in 1..Len(np) |->
     [j \in 1..(IF keep THEN N ELSE N - 1) |-> Div(np[i][j], np[i][N])]]

\* lines 76-81: new_points[:, :-1] / new_points[:, [-1]], and with keep_last
\* the column new_points[:, [-1]] stacked after it
Normalize(np, keep) ==
  LET N == Len(np[1])
      quot == [i \in 1..Len(np) |-> [j \in 1..(N - 1) |-> Div(np[i][j], np[i][N])]]
  IN IF ~keep THEN quot
     ELSE [i \in 1..Len(np) |-> Append(quot[i], AsFloat(np[i][N]))]

Raised(e) == [ok |-> FALSE, err |-> e, val |-> <<>>]

Returned(v) == [ok |-> TRUE, err |-> "none", val |-> v]

\* homogeneous_transform without the promotion to homogeneous coordinates:
\* every D other than M is refused
homogeneous_transform_NoPromote(pts, tr, keep) ==
  IF Len(pts[1]) # Len(tr) THEN Raised("ValueError")
  ELSE Returned(Normalize(MatMul(pts, tr), keep))

\* lines 62-83
homogeneous_transform(pts, tr, keep) ==
  LET D == Len(pts[1])
      M == Len(tr)
  IN IF D = M - 1 THEN Returned(Normalize(MatMul(AppendOnes(pts), tr), keep))
     ELSE IF D # M THEN Raised("ValueError")
     ELSE Returned(Normalize(MatMul(pts, tr), keep))

CallHomogeneousTransform ==
  /\ htRet = NoCall
  /\ htRet' = homogeneous_transform(points, transform, keep_last)
  /\ UNCHANGED <<points, transform, keep_last>>
  /\ UNCHANGED <<loadVars, fVars, calibVars>>

InitHT ==
  /\ \E n \in 1..MaxPts, D \in 1..MaxM : points \in Matrices(n, D)
  /\ \E M \in 1..MaxM, N \in OutDims : transform \in Matrices(M, N)
  /\ keep_last \in BOOLEAN
  /\ htRet = NoCall
  /\ LoadIdle /\ FilterIdle /\ CalibIdle

NextHT == CallHomogeneousTransform

SpecHT == InitHT /\ [][NextHT]_vars

(***************************************************************************)
(* Properties of homogeneous_transform                                     *)
(***************************************************************************)
PtsD == Len(points[1])

TrM == Len(transform)

TrN == Len(transform[1])

\* entry k of row i of the points in homogeneous form
Hom(i, k) == IF k <= PtsD THEN points[i][k] ELSE 1

RECURSIVE ProdTo(_, _, _)
ProdTo(i, j, k) ==
  IF k = 0 THEN 0 ELSE ProdTo(i, j, k - 1) + Hom(i, k) * transform[k][j]

\* entry (i, j) of points_homogeneous @ transform
Prod(i, j) == ProdTo(i, j, TrM)

\* C1: D = M-1 appends a column of ones, D = M multiplies as given, every
\* other D raises the dimension error and returns nothing.
C1_ShapesAccepted ==
  htRet # NoCall =>
    /\ htRet.ok <=> PtsD \in {TrM - 1, TrM}
    /\ ~htRet.ok => htRet.err = "ValueError" /\ htRet.val = <<>>
    /\ htRet.ok =>
         /\ Len(htRet.val) = Len(points)
         /\ \A i \in 1..Len(points) : \A j \in 1..(TrN - 1) :
              htRet.val[i][j] = Div(Prod(i, j), Prod(i, TrN))

\* a call that appended the ones and divided by a last coordinate that
\* the appended one contributes to
C1_Witness ==
  /\ htRet # NoCall /\ htRet.ok /\ PtsD = TrM - 1 /\ TrN = 2
  /\ transform[TrM][TrN] = 1 /\ Prod(1, TrN) = 2
  /\ htRet.val[1][1] = [n |-> 1, d |-> 2]

\* C2 as stated: with keep_last the last column is the last coordinate
\* after the division (the normalized value).
C2_LastColumnNormalized ==
  (htRet # NoCall /\ htRet.ok /\ keep_last) =>
    \A i \in 1..Len(points) :
      /\ Len(htRet.val[i]) = TrN
      /\ \A j \in 1..(TrN - 1) : htRet.val[i][j] = Div(Prod(i, j), Prod(i, TrN))
      /\ htRet.val[i][TrN] = Div(Prod(i, TrN), Prod(i, TrN))

\* C2 amended: with keep_last the rows have N columns, the first N-1 are
\* the product's columns divided by its last column and the last is the
\* product's last coordinate as computed, not divided; without keep_last
\* the rows are the same first N-1 columns.
C2_LastColumnRaw ==
  (htRet # NoCall /\ htRet.ok) =>
    \A i \in 1..Len(points) :
      /\ Len(htRet.val[i]) = IF keep_last THEN TrN ELSE TrN - 1
      /\ \A j \in 1..(TrN - 1) : htRet.val[i][j] = Div(Prod(i, j), Prod(i, TrN))
      /\ keep_last => htRet.val[i][TrN] = AsFloat(Prod(i, TrN))

\* keep_last kept a last coordinate that is not 1
C2_Witness ==
  /\ htRet # NoCall /\ htRet.ok /\ keep_last /\ TrN = 2
  /\ htRet.val[1][TrN] = AsFloat(2)
  /\ htRet.val[1][1] = [n |-> 1, d |-> 2]

(***************************************************************************)
(* filter_disps                                                            *)
(***************************************************************************)
Coords == {-1, 0, 1}

Shapes == {<<1, 2>>, <<2, 1>>}

MaxDisps == {0, 1}

\* the mask with the two sides of shape exchanged
DispMask_Swapped(rows, shp, maxd) ==
  [i \in 1..Len(rows) |->
     /\ rows[i][1] >= 0 /\ rows[i][1] <= shp[1] - 1
     /\ rows[i][2] >= 0 /\ rows[i][2] <= shp[2] - 1
     /\ rows[i][3] >= 0 /\ rows[i][3] <= maxd]

\* lines 87-90: x, y, d = xyd.T and the mask over the rows
DispMask(rows, shp, maxd) ==
  [i \in 1..Len(rows) |->
     /\ rows[i][1] >= 0 /\ rows[i][1] <= shp[2] - 1
     /\ rows[i][2] >= 0 /\ rows[i][2] <= shp[1] - 1
     /\ rows[i][3] >= 0 /\ rows[i][3] <= maxd]

\* xyd[mask]: the rows whose mask entry is true, in order
RECURSIVE Masked(_, _)
Masked(rows, mask) ==
  IF rows = <<>> THEN <<>>
  ELSE (IF Head(mask) THEN <<Head(rows)>> ELSE <<>>) \o Masked(Tail(rows), Tail(mask))

\* lines 86-92
filter_disps(rows, shp, maxd, withMask) ==
  LET mask == DispMask(rows, shp, maxd) IN
  [called |-> TRUE, rows |-> Masked(rows, mask), hasMask |-> withMask,
   mask |-> IF withMask THEN mask ELSE <<>>]

CallFilterDisps ==
  /\ ~fRet.called
  /\ fRet' = filter_disps(xyd, shape, max_disp, return_mask)
  /\ UNCHANGED <<xyd, shape, max_disp, return_mask>>
  /\ UNCHANGED <<loadVars, htVars, calibVars>>

InitFilter ==
  /\ xyd \in UNION {[1..n -> Coords \X Coords \X Coords] : n \in 0..MaxRows}
  /\ shape \in Shapes
  /\ max_disp \in MaxDisps
  /\ return_mask \in BOOLEAN
  /\ fRet = NoFilterCall
  /\ LoadIdle /\ HTIdle /\ CalibIdle

NextFilter == CallFilterDisps

SpecFilter == InitFilter /\ [][NextFilter]_vars

(***************************************************************************)
(* Properties of filter_disps                                              *)
(***************************************************************************)
\* row i lies in the window: all bounds inclusive, width from shape[1]
InWindow(i) ==
  /\ 0 <= xyd[i][1] /\ xyd[i][1] <= shape[2] - 1
  /\ 0 <= xyd[i][2] /\ xyd[i][2] <= shape[1] - 1
  /\ 0 <= xyd[i][3] /\ xyd[i][3] <= max_disp

KeptRows == {i \in 1..Len(xyd) : InWindow(i)}

\* C7: the result is exactly the rows inside the window, in their original
\* order, and with return_mask a mask of length n that is true exactly at
\* the kept rows.
C7_FilterKeepsWindow ==
  fRet.called =>
    /\ Len(fRet.rows) = Cardinality(KeptRows)
    /\ \A i \in KeptRows :
         fRet.rows[Cardinality({j \in KeptRows : j <= i})] = xyd[i]
    /\ fRet.hasMask = return_mask
    /\ return_mask =>
         /\ Len(fRet.mask) = Len(xyd)
         /\ \A i \in 1..Len(xyd) : fRet.mask[i] <=> i \in KeptRows

\* a row at x = width - 1 kept, a row at y = height dropped, with the mask
C7_Witness ==
  /\ fRet.called /\ return_mask /\ Len(xyd) = 2 /\ shape = <<1, 2>>
  /\ xyd[1] = <<0, 1, 0>> /\ xyd[2] = <<1, 0, 1>> /\ max_disp = 1
  /\ fRet.rows = <<xyd[2]>> /\ fRet.mask = <<FALSE, TRUE>>

(***************************************************************************)
(* Calib: the accessors                                                    *)
(*                                                                         *)
(* The sample calibration files hold whole numbers, so an array element is *)
(* the integer its decimal denotes.  A returned array is described by its  *)
(* value and, when it is a numpy view of an array of self.data, by the key *)
(* of that array (alias) and whether the view is transposed.               *)
(***************************************************************************)
R0_rect == <<"R", "0", "_", "r", "e", "c", "t">>

Tr_imu_to_velo == <<"T", "r", "_", "i", "m", "u", "_", "t", "o", "_", "v", "e", "l", "o">>

Tr_velo_to_cam == <<"T", "r", "_", "v", "e", "l", "o", "_", "t", "o", "_", "c", "a", "m">>

Tr_cam_to_road == <<"T", "r", "_", "c", "a", "m", "_", "t", "o", "_", "r", "o", "a", "d">>

DigitChar(n) == CHOOSE c \in Digit : DigitVal(c) = n

\* 'P%d' % cam
PKey(cam) == <<"P", DigitChar(cam)>>

RECURSIVE Pow10(_)
Pow10(e) == IF e <= 0 THEN 1 ELSE 10 * Pow10(e - 1)

\* the whole number a stored float denotes
Num(f) == f.s * f.m * Pow10(f.e)

\* the float a whole number is stored as
FloatOf(i) == Normal(IF i < 0 THEN -1 ELSE 1, Abs(i), 0)

Transpose(m) == [j \in 1..Len(m[1]) |-> [i \in 1..Len(m) |-> m[i][j]]]

\* np.eye(4)
Eye4 == [i \in 1..4 |-> [j \in 1..4 |-> IF i = j THEN 1 ELSE 0]]

Fresh(v) == [ok |-> TRUE, err |-> "none", val |-> v, alias |-> <<>>, transposed |-> FALSE]

View(v, key, tr) == [ok |-> TRUE, err |-> "none", val |-> v, alias |-> key, transposed |-> tr]

Fail(e) == [ok |-> FALSE, err |-> e, val |-> <<>>, alias |-> <<>>, transposed |-> FALSE]

\* a lookup that answers an absent key with zeros
ReshapeField_Default(d, key, r, c) ==
  IF key \notin DOMAIN d THEN Fresh([i \in 1..r |-> [j \in 1..c |-> 0]])
  ELSE IF d[key].tag # "num" THEN Fail("AttributeError")
  ELSE IF Len(d[key].vec) # r * c THEN Fail("ValueError")
  ELSE View([i \in 1..r |-> [j \in 1..c |-> Num(d[key].vec[(i - 1) * c + j])]],
            key, FALSE)

\* self.data[key].reshape(r, c): KeyError for an absent key, AttributeError
\* for a value kept as text, ValueError for a vector of another size
ReshapeField(d, key, r, c) ==
  IF key \notin DOMAIN d THEN Fail("KeyError")
  ELSE IF d[key].tag # "num" THEN Fail("AttributeError")
  ELSE IF Len(d[key].vec) # r * c THEN Fail("ValueError")
  ELSE View([i \in 1..r |-> [j \in 1..c |-> Num(d[key].vec[(i - 1) * c + j])]],
            key, FALSE)

\* lines 117-121
get_imu2velo(d) ==
  LET R == ReshapeField(d, R0_rect, 3, 3) IN
  IF ~R.ok THEN R
  ELSE IF Tr_imu_to_velo \notin DOMAIN d THEN Fail("KeyError")
  ELSE IF d[Tr_imu_to_velo].tag # "num" THEN Fail("ValueError")
  ELSE IF Len(d[Tr_imu_to_velo].vec) \notin {1, 3} THEN Fail("ValueError")
  ELSE LET t == d[Tr_imu_to_velo].vec
           RT == [i \in 1..4 |-> [j \in 1..4 |->
                    IF i <= 3 /\ j <= 3 THEN R.val[i][j]
                    ELSE IF i <= 3 THEN Num(t[IF Len(t) = 1 THEN 1 ELSE i])
                    ELSE Eye4[i][j]]]
       IN Fresh(Transpose(RT))

\* an identity 4x4 whose leftmost three columns are the transpose of a 3x4
LeftColumns(m34) ==
  [i \in 1..4 |-> [j \in 1..4 |-> IF j <= 3 THEN m34[j][i] ELSE Eye4[i][j]]]

\* lines 123-131
get_velo2rect(d) ==
  LET V == ReshapeField(d, Tr_velo_to_cam, 3, 4)
      R == ReshapeField(d, R0_rect, 3, 3)
  IN IF ~V.ok THEN V
     ELSE IF ~R.ok THEN R
     ELSE LET RT_velo2cam == LeftColumns(V.val)
              R_rect00 == [i \in 1..4 |-> [j \in 1..4 |->
                             IF i <= 3 /\ j <= 3 THEN R.val[i][j] ELSE Eye4[i][j]]]
          IN Fresh(Transpose(MatMul(R_rect00, RT_velo2cam)))

\* lines 133-136
get_velo2cam(d) == ReshapeField(d, Tr_velo_to_cam, 3, 4)

\* lines 137-139
get_cam2road(d) == ReshapeField(d, Tr_cam_to_road, 3, 4)

\* lines 140-148
get_velo2road(d) ==
  LET V == ReshapeField(d, Tr_velo_to_cam, 3, 4)
      C == ReshapeField(d, Tr_cam_to_road, 3, 4)
  IN IF ~V.ok THEN V
     ELSE IF ~C.ok THEN C
     ELSE Fresh(Transpose(MatMul(LeftColumns(C.val), LeftColumns(V.val))))

\* lines 150-160: self.color is read first
get_rect2disp(d, at) ==
  IF "color" \notin DOMAIN at THEN Fail("AttributeError")
  ELSE LET color == at["color"]
           cam0 == IF ~color THEN 0 ELSE 2
           cam1 == IF ~color THEN 1 ELSE 3
           P_rect0 == ReshapeField(d, PKey(cam0), 3, 4)
           P_rect1 == ReshapeField(d, PKey(cam1), 3, 4)
       IN IF ~P_rect0.ok THEN P_rect0
          ELSE IF ~P_rect1.ok THEN P_rect1
          ELSE LET P == P_rect0.val
                   Q == P_rect1.val
                   T == <<P[1], P[2], [j \in 1..4 |-> P[1][j] - Q[1][j]], P[3]>>
               IN Fresh(Transpose(T))

\* np.dot of two accessor results, the left one evaluated first
DotOf(a, b) ==
  IF ~a.ok THEN a ELSE IF ~b.ok THEN b ELSE Fresh(MatMul(a.val, b.val))

\* lines 162-163
get_imu2rect(d) == DotOf(get_imu2velo(d), get_velo2rect(d))

\* lines 165-166
get_imu2disp(d, at) == DotOf(get_imu2rect(d), get_rect2disp(d, at))

\* lines 168-169
get_velo2disp(d, at) == DotOf(get_velo2rect(d), get_rect2disp(d, at))

\* lines 199-203
get_proj(d, cam_idx) ==
  IF cam_idx \notin {0, 1, 2, 3} THEN Fail("AssertionError")
  ELSE LET P == ReshapeField(d, PKey(cam_idx), 3, 4) IN
       IF ~P.ok THEN P ELSE View(Transpose(P.val), PKey(cam_idx), TRUE)

\* lines 205-206
get_velo2depth(d, cam_idx) == DotOf(get_velo2rect(d), get_proj(d, cam_idx))

\* the cam_idx arguments explored: two valid ones and one out of range
CamIdx == {0, 3, 4}

Accessors ==
  {"get_imu2velo", "get_velo2rect", "get_velo2cam", "get_cam2road", "get_velo2road",
   "get_rect2disp", "get_imu2rect", "get_imu2disp", "get_velo2disp"}

\* what accessor a returns on the instance as it is
Result(a, cam_idx) ==
  CASE a = "get_imu2velo" -> get_imu2velo(cdata)
    [] a = "get_velo2rect" -> get_velo2rect(cdata)
    [] a = "get_velo2cam" -> get_velo2cam(cdata)
    [] a = "get_cam2road" -> get_cam2road(cdata)
    [] a = "get_velo2road" -> get_velo2road(cdata)
    [] a = "get_rect2disp" -> get_rect2disp(cdata, attrs)
    [] a = "get_imu2rect" -> get_imu2rect(cdata)
    [] a = "get_imu2disp" -> get_imu2disp(cdata, attrs)
    [] a = "get_velo2disp" -> get_velo2disp(cdata, attrs)
    [] a = "get_proj" -> get_proj(cdata, cam_idx)
    [] a = "get_velo2depth" -> get_velo2depth(cdata, cam_idx)

\* a call of an accessor without argument
CallAccessor ==
  /\ built
  /\ \E a \in Accessors :
       /\ lastCall' = <<a>>
       /\ ret' = Result(a, 0)
  /\ UNCHANGED <<colorArg, attrs, nwrites>>
  /\ UNCHANGED <<loadVars, htVars, fVars>>

\* a call of get_proj(cam_idx)
CallGetProj ==
  /\ built
  /\ \E c \in CamIdx :
       /\ lastCall' = <<"get_proj", c>>
       /\ ret' = Result("get_proj", c)
  /\ UNCHANGED <<colorArg, attrs, nwrites>>
  /\ UNCHANGED <<loadVars, htVars, fVars>>

\* a call of get_velo2depth(cam_idx)
CallGetVelo2Depth ==
  /\ built
  /\ \E c \in CamIdx :
       /\ lastCall' = <<"get_velo2depth", c>>
       /\ ret' = Result("get_velo2depth", c)
  /\ UNCHANGED <<colorArg, attrs, nwrites>>
  /\ UNCHANGED <<loadVars, htVars, fVars>>

WritePos == {<<1, 2>>}

WriteVals == {7}

\* the element of the flat array behind element (i, j) of a view of a (3, 4)
\* reshape, transposed or not
FlatIndex(i, j, tr) == IF tr THEN (j - 1) * 4 + i ELSE (i - 1) * 4 + j

\* the caller assigns m[i, j] = v on the array the last call returned; a
\* view writes through to the array of self.data it shares storage with
Overwrite ==
  /\ built /\ ret.ok /\ nwrites < MaxWrites
  /\ \E pos \in WritePos, v \in WriteVals :
       /\ ret' = [ret EXCEPT !.val[pos[1]][pos[2]] = v]
       /\ cdata' = IF ret.alias = <<>> THEN cdata
                   ELSE [cdata EXCEPT
                           ![ret.alias].vec[FlatIndex(pos[1], pos[2], ret.transposed)] =
                             FloatOf(v)]
  /\ nwrites' = nwrites + 1
  /\ UNCHANGED <<file, idx, data, pc, exc, built, colorArg, attrs, lastCall>>
  /\ UNCHANGED <<htVars, fVars>>

(***************************************************************************)
(* The calibration files the accessors are explored on: each field either  *)
(* absent or on a line of its own with whole numbers.                      *)
(***************************************************************************)
IntText(i) == (IF i < 0 THEN <<"-">> ELSE <<>>) \o <<DigitChar(Abs(i))>>

RECURSIVE NumbersText(_)
NumbersText(v) ==
  IF Len(v) = 1 THEN IntText(v[1])
  ELSE IntText(Head(v)) \o <<" ">> \o NumbersText(Tail(v))

FieldLine(key, v) == key \o <<":", " ">> \o NumbersText(v)

SampleLine(k, imu) ==
  CASE k = 1 -> FieldLine(PKey(0), <<2, 0, 1, 0, 0, 2, 1, 0, 0, 0, 1, 0>>)
    [] k = 2 -> FieldLine(PKey(1), <<2, 0, 1, -1, 0, 2, 1, 0, 0, 0, 1, 0>>)
    [] k = 3 -> FieldLine(PKey(2), <<3, 0, 1, 1, 0, 3, 1, 0, 0, 0, 1, 0>>)
    [] k = 4 -> FieldLine(PKey(3), <<3, 0, 1, -2, 0, 3, 1, 0, 0, 0, 1, 0>>)
    [] k = 5 -> FieldLine(R0_rect, <<1, 1, 0, 0, 1, 0, 0, 0, 1>>)
    [] k = 6 -> FieldLine(Tr_velo_to_cam, <<0, 1, 0, 1, 0, 0, 1, 0, 1, 0, 0, 2>>)
    [] k = 7 -> FieldLine(Tr_imu_to_velo, imu)
    [] k = 8 -> FieldLine(Tr_cam_to_road, <<1, 0, 0, 0, 0, 1, 1, 0, 0, 0, 1, 1>>)

RECURSIVE FileOf(_, _, _)
FileOf(k, missing, imu) ==
  IF k > 8 THEN <<>>
  ELSE (IF k \in missing THEN <<NL>> ELSE SampleLine(k, imu) \o <<NL>>)
       \o FileOf(k + 1, missing, imu)

ImuShort == <<1, 2, 0>>

ImuLong == <<1, 0, 0, 1, 0, 1, 0, 2, 0, 0, 1, 0>>

CalibFiles ==
  {FileOf(1, missing, ImuShort) :
     missing \in {m \in SUBSET (1..8) : Cardinality(m) <= MaxMissing}}
  \cup {FileOf(1, {}, ImuLong), <<"x", NL>>}

InitCalib ==
  /\ file \in CalibFiles
  /\ idx = 1
  /\ data = EmptyDict
  /\ pc = "loop"
  /\ exc = "none"
  /\ built = FALSE
  /\ cdata = EmptyDict
  /\ colorArg \in BOOLEAN
  /\ attrs = NoAttrs
  /\ lastCall = <<>>
  /\ ret = NoRet
  /\ nwrites = 0
  /\ HTIdle /\ FilterIdle

NextCalib ==
  \/ SkipLine \/ BadLine \/ StoreLine \/ CalibInit
  \/ CallAccessor \/ CallGetProj \/ CallGetVelo2Depth
  \/ Overwrite

SpecCalib == InitCalib /\ [][NextCalib]_vars

(***************************************************************************)
(* Properties of the accessors                                             *)
(***************************************************************************)
\* the raw fields an accessor call reads
Reads(call) ==
  LET a == call[1] IN
  CASE a = "get_imu2velo" -> {R0_rect, Tr_imu_to_velo}
    [] a = "get_velo2rect" -> {Tr_velo_to_cam, R0_rect}
    [] a = "get_velo2cam" -> {Tr_velo_to_cam}
    [] a = "get_cam2road" -> {Tr_cam_to_road}
    [] a = "get_velo2road" -> {Tr_velo_to_cam, Tr_cam_to_road}
    [] a = "get_rect2disp" -> {PKey(0), PKey(1)}
    [] a = "get_imu2rect" -> {R0_rect, Tr_imu_to_velo, Tr_velo_to_cam}
    [] a = "get_imu2disp" -> {R0_rect, Tr_imu_to_velo, Tr_velo_to_cam, PKey(0), PKey(1)}
    [] a = "get_velo2disp" -> {R0_rect, Tr_velo_to_cam, PKey(0), PKey(1)}
    [] a = "get_proj" -> IF call[2] \in 0..3 THEN {PKey(call[2])} ELSE {}
    [] a = "get_velo2depth" ->
         {R0_rect, Tr_velo_to_cam} \cup (IF call[2] \in 0..3 THEN {PKey(call[2])} ELSE {})

C6_StateInv ==
  /\ pc = "error" => \A i \in 1..Len(CurLine) : CurLine[i] # ":"
  /\ (lastCall # <<>> /\ ~(Reads(lastCall) \subseteq DOMAIN cdata)) => ~ret.ok

C6_Step ==
  /\ (pc = "loop" /\ pc' = "done") => (built' /\ cdata' = data)
  /\ (built /\ ~ret'.ok) => (cdata' = cdata /\ attrs' = attrs /\ built')

\* C6: validation is lazy: the constructor fails only on a line without
\* ':' and otherwise stores whatever keys the file holds; an accessor call fails when a raw field
\* it reads is absent; a failed call leaves self.data and the instance's
\* attributes, which are all an accessor's result depends on, as they were.
C6_LazyValidation == [](C6_StateInv) /\ [][C6_Step]_vars

\* a call failed on an absent field of an instance on which another
\* accessor, whose field is present, still returns
C6_Witness ==
  /\ built /\ lastCall = <<"get_cam2road">> /\ ret.err = "KeyError"
  /\ get_velo2cam(cdata).ok

\* the fields get_rect2disp is to read for the color given at construction
PairOf(color) == IF color THEN <<PKey(2), PKey(3)>> ELSE <<PKey(0), PKey(1)>>

RowsOf(key) == [i \in 1..3 |-> [j \in 1..4 |-> Num(cdata[key].vec[(i - 1) * 4 + j])]]

\* the transpose of [P0, P1, P0 - Q0, P2] for the rows P of one field and
\* Q of the other
DispOf(P, Q) ==
  [j \in 1..4 |->
     <<P[1][j], P[2][j], P[1][j] - Q[1][j], P[3][j]>>]

\* C3: get_rect2disp succeeds when the two fields of the pair chosen by the
\* constructor's color argument are present (P0, P1 for color = false,
\* P2, P3 for color = true) and returns the transposed stack built from
\* them.
C3_ColorSelectsPair ==
  (lastCall = <<"get_rect2disp">> /\ nwrites = 0
     /\ {PairOf(colorArg)[1], PairOf(colorArg)[2]} \subseteq DOMAIN cdata) =>
    /\ ret.ok
    /\ ret.val = DispOf(RowsOf(PairOf(colorArg)[1]), RowsOf(PairOf(colorArg)[2]))

\* C8: on an instance holding the fields, get_imu2disp returns
\* get_imu2rect @ get_rect2disp and get_velo2disp returns
\* get_velo2rect @ get_rect2disp, get_imu2rect being
\* get_imu2velo @ get_velo2rect.
C8_DispProducts ==
  (built /\ nwrites = 0 /\ lastCall \in {<<"get_imu2disp">>, <<"get_velo2disp">>}
     /\ get_imu2velo(cdata).ok /\ get_velo2rect(cdata).ok
     /\ {PKey(0), PKey(1), PKey(2), PKey(3)} \subseteq DOMAIN cdata) =>
    /\ get_imu2rect(cdata).val = MatMul(get_imu2velo(cdata).val, get_velo2rect(cdata).val)
    /\ ret.ok
    /\ ret.val = MatMul(IF lastCall = <<"get_imu2disp">>
                         THEN get_imu2rect(cdata).val ELSE get_velo2rect(cdata).val,
                         DispOf(RowsOf(PKey(0)), RowsOf(PKey(1))))

\* C9: whatever accessors are called and whatever the caller writes into
\* the arrays they returned, self.data stays as loaded.
C9_ReturnedArraysFresh == [][built => cdata' = cdata]_vars

(***************************************************************************)
(* Properties of read_calib_file                                           *)
(***************************************************************************)
\* a line of the file without its terminator
Content(l) == IF l # <<>> /\ l[Len(l)] = NL THEN SubSeq(l, 1, Len(l) - 1) ELSE l

HasSep(l) == \E i \in 1..Len(l) : l[i] = ":"

KeyText(l) == SubSeq(l, 1, FirstIndex(l, ":") - 1)

ValueText(l) == Strip(SubSeq(l, FirstIndex(l, ":") + 1, Len(l)), Whitespace)

\* the lines handled so far that hold an entry
Handled == {j \in 1..(idx - 1) : Content(Lines[j]) # <<>>}

\* the last handled line holding key k
LastLineOf(k) ==
  CHOOSE j \in Handled :
    /\ KeyText(Content(Lines[j])) = k
    /\ \A i \in Handled : KeyText(Content(Lines[i])) = k => i <= j

\* C4: lines are handled in order; an empty line is skipped, every other
\* line is split at its first ':' (value trimmed, later ':' kept), and the
\* first non-empty line without ':' fails the whole load: nothing is
\* returned and no Calib instance is built.
C4_ParseErrorAbortsLoad ==
  /\ \A j \in 1..(idx - 1) : Content(Lines[j]) = <<>> \/ HasSep(Content(Lines[j]))
  /\ pc = "error" =>
       /\ idx \in 1..Len(Lines)
       /\ Content(Lines[idx]) # <<>> /\ ~HasSep(Content(Lines[idx]))
       /\ exc = "ValueError" /\ ~built /\ cdata = EmptyDict
  /\ built <=> pc = "done"
  /\ pc # "error" => exc = "none"
  /\ \A j \in Handled :
       /\ KeyText(Content(Lines[j])) \in DOMAIN data
       /\ j = LastLineOf(KeyText(Content(Lines[j]))) =>
            LET v == data[KeyText(Content(Lines[j]))] IN
            v.tag = "str" => v.str = ValueText(Content(Lines[j]))

\* an earlier entry was stored and a later line without ':' failed the load
C4_Witness ==
  /\ pc = "error" /\ idx = 2 /\ DOMAIN data # {}
  /\ \E k \in DOMAIN data : HasSep(data[k].str)

LoopDone == pc = "loop" /\ idx = Len(Lines) + 1

\* C5: the stored value is a numeric vector exactly when every character
\* of the trimmed value is a float character and every piece between single
\* spaces parses as a float; otherwise it is the trimmed string, and the
\* load does not fail.
C5_NumericOrFallback ==
  /\ \A k \in DOMAIN data :
       LET value == ValueText(Content(Lines[LastLineOf(k)]))
           pieces == SplitAll(value, " ")
           numeric == /\ \A i \in 1..Len(value) : value[i] \in float_chars
                      /\ \A i \in 1..Len(pieces) : ParsesAsFloat(pieces[i])
       IN /\ data[k].tag = "num" <=> numeric
          /\ numeric => /\ Len(data[k].vec) = Len(pieces)
                         /\ \A i \in 1..Len(pieces) : data[k].vec[i] = FloatVal(pieces[i])
          /\ ~numeric => data[k] = TextValue(value)
  /\ pc = "error" => ~HasSep(Content(Lines[idx]))

\* a value made of float characters only whose pieces do not all parse is
\* kept as text, and the load completes
C5_Witness ==
  /\ LoopDone
  /\ \E k \in DOMAIN data :
       /\ data[k].tag = "str" /\ data[k].str # <<>>
       /\ \A i \in 1..Len(data[k].str) : data[k].str[i] \in float_chars

\* the entries after the lines handled so far
C10_Entries ==
  /\ DOMAIN data = {KeyText(Content(Lines[j])) : j \in Handled}
  /\ \A k \in DOMAIN data :
       data[k] = StoredValue(SubSeq(Content(Lines[LastLineOf(k)]),
                                    FirstIndex(Content(Lines[LastLineOf(k)]), ":") + 1,
                                    Len(Content(Lines[LastLineOf(k)]))))

\* what is returned is the dict as it stands after the last line
C10_Returned == (pc = "loop" /\ pc' = "done") => (LoopDone /\ cdata' = data)

\* C10: one entry per distinct key text (untrimmed), holding the value of
\* the last line with that key.
C10_LastLineWins == [](C10_Entries) /\ [][C10_Returned]_vars

\* the same key on two lines with different values, the later one stored
C10_Witness ==
  /\ LoopDone /\ Cardinality(Handled) = 2 /\ Cardinality(DOMAIN data) = 1
  /\ \E i, j \in Handled :
       /\ i < j
       /\ ValueText(Content(Lines[i])) # ValueText(Content(Lines[j]))
       /\ \E k \in DOMAIN data : data[k].str = ValueText(Content(Lines[j]))
                                  /\ data[k].tag = "str"

====
